---- MODULE Spec2Model ----
(***************************************************************************)
(* A model of the vines volume-integral-equation code:                     *)
(*   - src/vines/fields/transducers.py   (bowl_transducer, normalise_power)*)
(*   - src/demo/hifu/transducer_nonlinear.py (incident field, calibration, *)
(*     harmonic cascade)                                                   *)
(*   - src/demo/acoustics/sphere_density_contrast.py (operator call sites) *)
(* The kernel assembly, the circulant embedding and the matrix-vector      *)
(* products live in vines.operators / vines.precondition, which are not    *)
(* among the source files; they are modelled from the specification.       *)
(*                                                                         *)
(* Numbers.  Complex values are Gaussian integers <<re, im>>.  Lengths are *)
(* integers in millimetres, so that the exclusion distance 1e-3 m of       *)
(* eval_source is 1.  Transcendental values (exp, sin, pi) are not         *)
(* computed: a monopole term is kept as the formal term of its source and  *)
(* squared distance, and pi is carried as an exponent.                     *)
(***************************************************************************)
EXTENDS Integers, Sequences, FiniteSets, TLC

VARIABLES
    \* ---- circulant embedding against the direct Toeplitz sum
    ePc, eShape, eToep, eField, eCirc, eOut,
    \* ---- the matrix-vector product family
    mPc, mVariant, mShape, mCirc, mCircGrad, mIdx, mMr, mDrGrad, mRho,
    mX1, mX2, mA, mB, mOutComb, mOut1, mOut2,
    \* ---- bowl_transducer
    bPc, bArgs, bSrc, bTodo, bP, bFault,
    \* ---- incident field and power calibration of the HIFU demo
    rPc, rCfg, rField, rBuilds, rPower, rIntensity, rP0, rScaled,
    \* ---- harmonic cascade of the HIFU demo
    pc, n_harm, grid, p, P, computed, i_harm, k2, toep_op, circ_op, xIn,
    xInFrom, readBeforeWrite, used

embedVars == <<ePc, eShape, eToep, eField, eCirc, eOut>>
matvecVars == <<mPc, mVariant, mShape, mCirc, mCircGrad, mIdx, mMr, mDrGrad,
                mRho, mX1, mX2, mA, mB, mOutComb, mOut1, mOut2>>
bowlVars == <<bPc, bArgs, bSrc, bTodo, bP, bFault>>
runVars == <<rPc, rCfg, rField, rBuilds, rPower, rIntensity, rP0, rScaled>>
cascadeVars == <<pc, n_harm, grid, p, P, computed, i_harm, k2, toep_op,
                 circ_op, xIn, xInFrom, readBeforeWrite, used>>
vars == <<embedVars, matvecVars, bowlVars, runVars, cascadeVars>>

\* A part of the program that a specification does not run.
EmbedIdle ==
    /\ ePc = "off"
    /\ eShape = <<>>
    /\ eToep = <<>>
    /\ eField = <<>>
    /\ eCirc = <<>>
    /\ eOut = <<>>

MatvecIdle ==
    /\ mPc = "off"
    /\ mVariant = ""
    /\ mShape = <<>>
    /\ mCirc = <<>>
    /\ mCircGrad = <<>>
    /\ mIdx = {}
    /\ mMr = <<>>
    /\ mDrGrad = <<>>
    /\ mRho = <<>>
    /\ mX1 = <<>>
    /\ mX2 = <<>>
    /\ mA = <<>>
    /\ mB = <<>>
    /\ mOutComb = <<>>
    /\ mOut1 = <<>>
    /\ mOut2 = <<>>

BowlIdle ==
    /\ bPc = "off"
    /\ bArgs = <<>>
    /\ bSrc = {}
    /\ bTodo = {}
    /\ bP = <<>>
    /\ bFault = FALSE

RunIdle ==
    /\ rPc = "off"
    /\ rCfg = <<>>
    /\ rField = <<>>
    /\ rBuilds = <<>>
    /\ rPower = 0
    /\ rIntensity = <<>>
    /\ rP0 = <<>>
    /\ rScaled = <<>>

CascadeIdle ==
    /\ pc = "off"
    /\ n_harm = 0
    /\ grid = <<>>
    /\ p = <<>>
    /\ P = <<>>
    /\ computed = {}
    /\ i_harm = 0
    /\ k2 = <<>>
    /\ toep_op = <<>>
    /\ circ_op = <<>>
    /\ xIn = <<>>
    /\ xInFrom = <<>>
    /\ readBeforeWrite = FALSE
    /\ used = <<>>

(***************************************************************************)
(* Bounds of the model.                                                    *)
(***************************************************************************)
MaxVoxels == 4        \* grids of at most this many voxels (embedding)
MaxKernelMass == 1    \* a kernel is a sum of at most this many unit impulses
MaxFieldMass == 1     \* a field is a sum of at most this many unit impulses
MaxOpVoxels == 2      \* grids of at most this many voxels (operator family)
MaxHarm == 6          \* harmonic counts n_harm of 1 .. MaxHarm are requested
MaxFocal == 3         \* focal lengths of 1 .. MaxFocal millimetres
MaxPoints == 2        \* at most this many observation points per call
MaxPower == 2         \* target powers of -1 .. MaxPower
QuadSamples == 3      \* radial quadrature samples (n_quad is 500)
MaxIntensity == 1     \* sampled intensities |p_quad|^2 of 0 .. MaxIntensity

(***************************************************************************)
(* Complex arithmetic on Gaussian integers.                                *)
(***************************************************************************)
CZero == <<0, 0>>
COne == <<1, 0>>
CI == <<0, 1>>
CAdd(a, b) == <<a[1] + b[1], a[2] + b[2]>>
CSub(a, b) == <<a[1] - b[1], a[2] - b[2]>>
CMul(a, b) == <<a[1] * b[1] - a[2] * b[2], a[1] * b[2] + a[2] * b[1]>>
CScale(n, a) == <<n * a[1], n * a[2]>>

RECURSIVE CSum(_, _)
CSum(f, S) ==
    IF S = {} THEN CZero
    ELSE LET v == CHOOSE u \in S : TRUE
         IN CAdd(f[v], CSum(f, S \ {v}))

(***************************************************************************)
(* The voxel grid: shape <<L, M, N>>, voxels and Toeplitz lags.            *)
(***************************************************************************)
Cells(size) == (0 .. size[1] - 1) \X (0 .. size[2] - 1) \X (0 .. size[3] - 1)
Voxels(shape) == Cells(shape)
LagsOf(shape) == (-(shape[1] - 1) .. (shape[1] - 1))
                 \X (-(shape[2] - 1) .. (shape[2] - 1))
                 \X (-(shape[3] - 1) .. (shape[3] - 1))
VSub(i, j) == <<i[1] - j[1], i[2] - j[2], i[3] - j[3]>>
VMod(i, size) == <<i[1] % size[1], i[2] % size[2], i[3] % size[3]>>
ZeroField(shape) == [v \in Voxels(shape) |-> CZero]

\* The sum of f over the cells of a grid, in flattened order.
CellAt(n, size) ==
    <<n \div (size[2] * size[3]), (n \div size[3]) % size[2], n % size[3]>>
RECURSIVE GridSumTo(_, _, _)
GridSumTo(f, size, n) ==
    IF n = 0 THEN CZero
    ELSE CAdd(f[CellAt(n - 1, size)], GridSumTo(f, size, n - 1))
GridSum(f, size) == GridSumTo(f, size, size[1] * size[2] * size[3])

(***************************************************************************)
(* Bounded input families: a tensor over a domain D that is a sum of at    *)
(* most `mass` unit impulses (each 1 or i at one index).                   *)
(***************************************************************************)
Units == {COne, CI}
ImpulseSeqs(D, mass) == UNION {[1 .. n -> D \X Units] : n \in 0 .. mass}
SumImpulses(D, s) ==
    [d \in D |->
        CSum([k \in 1 .. Len(s) |-> s[k][2]],
             {k \in 1 .. Len(s) : s[k][1] = d})]
TensorsOn(D, mass) == {SumImpulses(D, s) : s \in ImpulseSeqs(D, mass)}
Shapes(maxVoxels) ==
    {s \in (1 .. maxVoxels) \X (1 .. maxVoxels) \X (1 .. maxVoxels) :
        s[1] * s[2] * s[3] <= maxVoxels}

(***************************************************************************)
(* CirculantEmbedder (vines.precondition.threeD, modelled from the         *)
(* specification).  The Toeplitz kernel over the full lag range is         *)
(* extended periodically on a grid padded by one grid extent per axis;     *)
(* the cell at index L of an axis (lag neither L nor -L exists) is zero.   *)
(* The cached spectrum and the transform -> multiply -> inverse transform  *)
(* are represented by the circular convolution they compute.               *)
(***************************************************************************)
EmbedSize(L, M, N) == <<2 * L, 2 * M, 2 * N>>

\* The lag a cell index m stands for on an axis of extent n padded to width w.
AxisLag(m, n, w) == IF m < n THEN m ELSE m - w
AxisHasLag(m, n, w) == m < n \/ m > w - n

\* A plausible slip: the padded half mirrors the kernel without negating the lag.
circulant_embed_mirrored(toep, L, M, N) ==
    LET size == EmbedSize(L, M, N)
        Mir(m, n, w) == IF m < n THEN m ELSE w - m
    IN [size |-> size,
        c |-> [m \in Cells(size) |->
                 IF /\ AxisHasLag(m[1], L, size[1])
                    /\ AxisHasLag(m[2], M, size[2])
                    /\ AxisHasLag(m[3], N, size[3])
                 THEN toep[<<Mir(m[1], L, size[1]),
                             Mir(m[2], M, size[2]),
                             Mir(m[3], N, size[3])>>]
                 ELSE CZero]]

circulant_embed_fftw(toep, L, M, N) ==
    LET size == EmbedSize(L, M, N)
    IN [size |-> size,
        c |-> [m \in Cells(size) |->
                 IF /\ AxisHasLag(m[1], L, size[1])
                    /\ AxisHasLag(m[2], M, size[2])
                    /\ AxisHasLag(m[3], N, size[3])
                 THEN toep[<<AxisLag(m[1], L, size[1]),
                             AxisLag(m[2], M, size[2]),
                             AxisLag(m[3], N, size[3])>>]
                 ELSE CZero]]

\* Zero-padding of a field on the grid to the embedding's size.
ZeroPad(x, shape, size) ==
    [j \in Cells(size) |-> IF j \in Voxels(shape) THEN x[j] ELSE CZero]

\* Circular convolution on the padded grid, truncated to the L x M x N region.
Convolve(circ, x, shape) ==
    LET xpad == ZeroPad(x, shape, circ.size)
    IN [i \in Voxels(shape) |->
          GridSum([j \in Cells(circ.size) |->
                      CMul(circ.c[VMod(VSub(i, j), circ.size)], xpad[j])],
                  circ.size)]

\* The non-periodic Toeplitz convolution: the explicit sum over voxel pairs.
DirectToeplitz(toep, x, shape) ==
    [i \in Voxels(shape) |->
        GridSum([j \in Voxels(shape) |-> CMul(toep[VSub(i, j)], x[j])],
                shape)]

(***************************************************************************)
(* SpecEmbed: embed a kernel, apply it to a field.                         *)
(***************************************************************************)
EmbedInit ==
    /\ ePc = "kernel"
    /\ eShape \in Shapes(MaxVoxels)
    /\ eToep \in TensorsOn(LagsOf(eShape), MaxKernelMass)
    /\ eField \in TensorsOn(Voxels(eShape), MaxFieldMass)
    /\ eCirc = <<>>
    /\ eOut = <<>>

EmbedKernel ==
    /\ ePc = "kernel"
    /\ eCirc' = circulant_embed_fftw(eToep, eShape[1], eShape[2], eShape[3])
    /\ ePc' = "embedded"
    /\ UNCHANGED <<eShape, eToep, eField, eOut>>

ApplyEmbedding ==
    /\ ePc = "embedded"
    /\ eOut' = Convolve(eCirc, eField, eShape)
    /\ ePc' = "applied"
    /\ UNCHANGED <<eShape, eToep, eField, eCirc>>

EmbedNext ==
    \/ EmbedKernel /\ UNCHANGED <<matvecVars, bowlVars, runVars, cascadeVars>>
    \/ ApplyEmbedding /\ UNCHANGED <<matvecVars, bowlVars, runVars, cascadeVars>>

EmbedStart == EmbedInit /\ MatvecIdle /\ BowlIdle /\ RunIdle /\ CascadeIdle

SpecEmbed == EmbedStart /\ [][EmbedNext]_vars

\* C2: the truncated circular convolution with the embedded kernel is the direct
\* non-periodic Toeplitz convolution, for every kernel and field on every grid.
EmbeddingExact ==
    ePc = "applied" => eOut = DirectToeplitz(eToep, eField, eShape)

\* A kernel with a nonzero negative lag (stored in the padded half, where a
\* wrapped term would come from) has acted on a nonzero field.
EmbeddingExactWitness ==
    /\ ePc = "applied"
    /\ \E l \in LagsOf(eShape) :
          /\ l[1] < 0 \/ l[2] < 0 \/ l[3] < 0
          /\ eToep[l] # CZero
    /\ \E v \in Voxels(eShape) : eOut[v] # CZero /\ v # <<0, 0, 0>>

(***************************************************************************)
(* OperatorMatVec (vines.operators.acoustic_matvecs, modelled from the     *)
(* specification; the names are those of the call sites).  Fields are      *)
(* functions on the voxels; the flattening to a vector is a relabelling.   *)
(***************************************************************************)
Hadamard(f, g, shape) == [v \in Voxels(shape) |-> CMul(f[v], g[v])]
FieldAdd(f, g, shape) == [v \in Voxels(shape) |-> CAdd(f[v], g[v])]
FieldSub(f, g, shape) == [v \in Voxels(shape) |-> CSub(f[v], g[v])]
FieldMul(a, f, shape) == [v \in Voxels(shape) |-> CMul(a, f[v])]
Ones(shape) == [v \in Voxels(shape) |-> COne]

\* The gradient kernel goes through the same lag-preserving periodic extension,
\* which keeps its odd symmetry.
circulant_gradient_embed(toep_grad, L, M, N) ==
    circulant_embed_fftw(toep_grad, L, M, N)

\* A plausible slip: the identity term is an array of ones instead of x.
mvp_vec_fftw_ones(x, circ, idx, Mr, shape) ==
    LET conv == Convolve(circ, Hadamard(Mr, x, shape), shape)
    IN [v \in Voxels(shape) |->
          IF v \in idx THEN CSub(COne, CMul(Mr[v], conv[v])) ELSE x[v]]

\* Scalar masked operator: y = x - contrast . Convolve(contrast . x) on the mask,
\* identity outside it.
mvp_vec_fftw(x, circ, idx, Mr, shape) ==
    LET conv == Convolve(circ, Hadamard(Mr, x, shape), shape)
    IN [v \in Voxels(shape) |->
          IF v \in idx THEN CSub(x[v], CMul(Mr[v], conv[v])) ELSE x[v]]

\* Gradient-only operator: the gradient-kernel convolution term alone, scaled by
\* the density-ratio field and the density-contrast gradient.
mvp_potential_grad(x, circGrad, idx, DrGrad, rho, shape) ==
    LET conv == Convolve(circGrad, x, shape)
    IN [v \in Voxels(shape) |->
          IF v \in idx THEN CMul(rho[v], CMul(DrGrad[v], conv[v])) ELSE CZero]

\* Coupled density operator: the scalar convolution combined with the
\* gradient-kernel convolution.
mvp_vec_rho_fftw(x, circ, circGrad, idx, Mr, DrGrad, rho, shape) ==
    FieldSub(mvp_vec_fftw(x, circ, idx, Mr, shape),
             mvp_potential_grad(x, circGrad, idx, DrGrad, rho, shape),
             shape)

\* Full-domain operator: the same convolution over the entire grid.
mvp_domain(x, circ, Mr, shape) ==
    FieldSub(x,
             Hadamard(Mr, Convolve(circ, Hadamard(Mr, x, shape), shape), shape),
             shape)

\* Generic contrast operator: the scalar convolution with a per-voxel contrast
\* field and no masking.
mvp_volume_potential(x, circ, idx, Mr, shape) ==
    Hadamard(Mr, Convolve(circ, x, shape), shape)

(***************************************************************************)
(* SpecMatVec: one operator variant, applied to a*x1 + b*x2, to x1 and to  *)
(* x2 with the embeddings, the mask and the contrast fields held fixed.    *)
(***************************************************************************)
Variants == {"scalar", "coupled", "domain", "gradient", "generic"}
ScalarPairs == {<<<<2, 0>>, <<0, 1>>>>, <<<<1, 1>>, <<-1, 0>>>>}

\* The zero tensor and the unit impulses on a domain D.
BasisOn(D) == {[d \in D |-> IF d = e THEN COne ELSE CZero] : e \in D}
              \cup {[d \in D |-> CZero]}

\* Odd-symmetric kernels: g[l] = t[l] - t[-l].
OddKernels(shape) ==
    {[l \in LagsOf(shape) |-> CSub(t[l], t[<<-l[1], -l[2], -l[3]>>])] :
        t \in BasisOn(LagsOf(shape))}

\* Contrast fields of an inclusion idx, as sphere_density_contrast.py builds
\* them: a constant inside the inclusion, zero (ratio: one) outside.
MrOf(idx, shape) == [v \in Voxels(shape) |-> IF v \in idx THEN <<1, 1>> ELSE CZero]
RhoOf(idx, shape) == [v \in Voxels(shape) |-> IF v \in idx THEN <<2, 0>> ELSE COne]
DrGradOf(idx, shape) == [v \in Voxels(shape) |-> IF v \in idx THEN <<0, 1>> ELSE CZero]

MatvecInit ==
    /\ mPc = "ready"
    /\ mVariant \in Variants
    /\ mShape \in Shapes(MaxOpVoxels)
    /\ \E toep \in BasisOn(LagsOf(mShape)) :
          mCirc = circulant_embed_fftw(toep, mShape[1], mShape[2], mShape[3])
    /\ IF mVariant \in {"coupled", "gradient"}
       THEN \E g \in OddKernels(mShape) :
               mCircGrad = circulant_gradient_embed(g, mShape[1], mShape[2], mShape[3])
       ELSE mCircGrad = circulant_gradient_embed(
                           [l \in LagsOf(mShape) |-> CZero],
                           mShape[1], mShape[2], mShape[3])
    /\ mIdx \in SUBSET Voxels(mShape)
    /\ mMr = MrOf(mIdx, mShape)
    /\ mRho = RhoOf(mIdx, mShape)
    /\ mDrGrad = DrGradOf(mIdx, mShape)
    /\ mX1 \in BasisOn(Voxels(mShape))
    /\ mX2 \in BasisOn(Voxels(mShape))
    /\ \E ab \in ScalarPairs : mA = ab[1] /\ mB = ab[2]
    /\ mOutComb = <<>>
    /\ mOut1 = <<>>
    /\ mOut2 = <<>>

Combination == FieldAdd(FieldMul(mA, mX1, mShape), FieldMul(mB, mX2, mShape), mShape)

Probe(outComb, out1, out2) ==
    /\ mPc = "ready"
    /\ mOutComb' = outComb
    /\ mOut1' = out1
    /\ mOut2' = out2
    /\ mPc' = "applied"
    /\ UNCHANGED <<mVariant, mShape, mCirc, mCircGrad, mIdx, mMr, mDrGrad, mRho,
                   mX1, mX2, mA, mB>>

ApplyScalar ==
    /\ mVariant = "scalar"
    /\ LET Op(x) == mvp_vec_fftw(x, mCirc, mIdx, mMr, mShape)
       IN Probe(Op(Combination), Op(mX1), Op(mX2))

ApplyCoupled ==
    /\ mVariant = "coupled"
    /\ LET Op(x) == mvp_vec_rho_fftw(x, mCirc, mCircGrad, mIdx, mMr, mDrGrad,
                                     mRho, mShape)
       IN Probe(Op(Combination), Op(mX1), Op(mX2))

ApplyDomain ==
    /\ mVariant = "domain"
    /\ LET Op(x) == mvp_domain(x, mCirc, mMr, mShape)
       IN Probe(Op(Combination), Op(mX1), Op(mX2))

ApplyGradient ==
    /\ mVariant = "gradient"
    /\ LET Op(x) == mvp_potential_grad(x, mCircGrad, mIdx, mDrGrad, mRho, mShape)
       IN Probe(Op(Combination), Op(mX1), Op(mX2))

ApplyGeneric ==
    /\ mVariant = "generic"
    /\ LET Op(x) == mvp_volume_potential(x, mCirc, mIdx, mMr, mShape)
       IN Probe(Op(Combination), Op(mX1), Op(mX2))

MatvecNext ==
    \/ ApplyScalar /\ UNCHANGED <<embedVars, bowlVars, runVars, cascadeVars>>
    \/ ApplyCoupled /\ UNCHANGED <<embedVars, bowlVars, runVars, cascadeVars>>
    \/ ApplyDomain /\ UNCHANGED <<embedVars, bowlVars, runVars, cascadeVars>>
    \/ ApplyGradient /\ UNCHANGED <<embedVars, bowlVars, runVars, cascadeVars>>
    \/ ApplyGeneric /\ UNCHANGED <<embedVars, bowlVars, runVars, cascadeVars>>

MatvecStart == MatvecInit /\ EmbedIdle /\ BowlIdle /\ RunIdle /\ CascadeIdle

SpecMatVec == MatvecStart /\ [][MatvecNext]_vars

\* C1: every operator variant is linear in its input vector:
\* Op(a*x1 + b*x2) = a*Op(x1) + b*Op(x2).
MatVecLinear ==
    mPc = "applied" =>
        mOutComb = FieldAdd(FieldMul(mA, mOut1, mShape),
                            FieldMul(mB, mOut2, mShape), mShape)

\* The scalar masked operator has acted on two different nonzero inputs inside a
\* nonempty inclusion, and the convolution term contributed.
MatVecLinearWitness ==
    /\ mPc = "applied"
    /\ mVariant = "scalar"
    /\ mIdx # {}
    /\ mX1 # mX2
    /\ mX1 # ZeroField(mShape)
    /\ mX2 # ZeroField(mShape)
    /\ mOutComb # Combination

(***************************************************************************)
(* The harmonic cascade of transducer_nonlinear.py (lines 116-190).        *)
(*                                                                         *)
(* Units.  Frequencies are multiples of f1; the real part of a wavenumber  *)
(* is in units of 2*pi*f1/c and its imaginary part in units of             *)
(* attenuation(f1); the common positive factor beta*omega^2/(rho*c^4) of   *)
(* every forcing term is the unit of the forcing field.                    *)
(***************************************************************************)
eta == 2
f1 == 1

\* alpha0 * (f * 1e-6)**eta, in units of attenuation(f1)
attenuation(f) == f ^ eta

\* A plausible slip: every harmonic assembled at the fundamental frequency.
HarmonicFrequencyFundamental(i) == f1

\* f2 = (i_harm + 1) * f1
HarmonicFrequency(i) == (i + 1) * f1

\* k2 = 2*pi*f2/c + 1j*attenuation(f2, alpha0, eta)
Wavenumber(f) == <<f, attenuation(f)>>

\* KernelAssembler (vines.operators.acoustic_operators.volume_potential, modelled
\* from the specification): a Toeplitz tensor over the full lag range that is a
\* function of the wavenumber and of the lag's length alone, hence even in the
\* lag, with a finite self-term.  The Green's function value is replaced by an
\* integer stand-in that differs between the wavenumbers of the harmonics.
GreenSample(k, d2) ==
    LET n == k[1] + 3 + d2
    IN <<(n % 3) - 1, ((n \div 3) % 3) - 1>>
volume_potential(k, shape) ==
    [k |-> k,
     t |-> [l \in LagsOf(shape) |->
              GreenSample(k, l[1] * l[1] + l[2] * l[2] + l[3] * l[3])]]

\* reshape(..., order='F'): the first index runs fastest.
FlatIndex(v, shape) == v[1] + shape[1] * v[2] + shape[1] * shape[2] * v[3]
FlattenF(field, shape) ==
    [n \in 0 .. (shape[1] * shape[2] * shape[3] - 1) |->
        field[<<n % shape[1], (n \div shape[1]) % shape[2],
                n \div (shape[1] * shape[2])>>]]
UnflattenF(vec, shape) == [v \in Voxels(shape) |-> vec[FlatIndex(v, shape)]]

\* A plausible slip: the third harmonic pairs the fundamental with itself.
ForcingTermsSlip(i) ==
    CASE i = 1 -> [coef |-> -2, terms |-> <<<<1, 0, 0>>>>]
      [] i = 2 -> [coef |-> -9, terms |-> <<<<1, 0, 2>>>>]
      [] i = 3 -> [coef |-> -8, terms |-> <<<<1, 1, 1>>, <<2, 0, 2>>>>]
      [] i = 4 -> [coef |-> -25, terms |-> <<<<1, 0, 3>>, <<1, 1, 2>>>>]
      [] OTHER -> [coef |-> 0, terms |-> <<>>]

\* The if/elif chain that builds xIn: coef * sum of weight * P[a] * P[b] over the
\* terms <<weight, a, b>>.  No branch exists for i_harm >= 5.
ForcingTerms(i) ==
    CASE i = 1 -> [coef |-> -2, terms |-> <<<<1, 0, 0>>>>]
      [] i = 2 -> [coef |-> -9, terms |-> <<<<1, 0, 1>>>>]
      [] i = 3 -> [coef |-> -8, terms |-> <<<<1, 1, 1>>, <<2, 0, 2>>>>]
      [] i = 4 -> [coef |-> -25, terms |-> <<<<1, 0, 3>>, <<1, 1, 2>>>>]
      [] OTHER -> [coef |-> 0, terms |-> <<>>]
HasBranch(i) == ForcingTerms(i).terms # <<>>

RECURSIVE TermSum(_, _, _, _)
TermSum(terms, n, stack, shape) ==
    IF n = 0 THEN ZeroField(shape)
    ELSE LET t == terms[n]
         IN FieldAdd(TermSum(terms, n - 1, stack, shape),
                     FieldMul(<<t[1], 0>>,
                              Hadamard(stack[t[2]], stack[t[3]], shape), shape),
                     shape)
ForcingField(i, stack, shape) ==
    LET ft == ForcingTerms(i)
    IN FieldMul(<<ft.coef, 0>>,
                TermSum(ft.terms, Len(ft.terms), stack, shape), shape)
ForcingReads(i) ==
    LET ft == ForcingTerms(i)
    IN UNION {{ft.terms[n][2], ft.terms[n][3]} : n \in 1 .. Len(ft.terms)}

\* A plausible slip: the vector is read back in C order (last index fastest).
mvpRowMajor(x, circ, idx, Mr, shape) ==
    LET UnflattenC(vec) ==
            [v \in Voxels(shape) |->
                vec[v[3] + shape[3] * v[2] + shape[3] * shape[2] * v[1]]]
    IN FlattenF(mvp_volume_potential(UnflattenC(x), circ, idx, Mr, shape), shape)

\* def mvp(x): mvp_volume_potential(x, circ_op, idx, Mr), where the closure reads
\* circ_op, idx and Mr when it is called.
mvp(x, circ, idx, Mr, shape) ==
    FlattenF(mvp_volume_potential(UnflattenF(x, shape), circ, idx, Mr, shape),
             shape)

\* A plausible slip: P[:i_harm + 1] = ... broadcasts the result over the entries
\* up to i_harm.
StoreHarmonicBroadcast(stack, i, field) ==
    [h \in DOMAIN stack |-> IF h <= i THEN field ELSE stack[h]]

\* P[i_harm] = ...
StoreHarmonic(stack, i, field) == [stack EXCEPT ![i] = field]

CascadeInit ==
    /\ pc = "alloc"
    /\ n_harm \in 1 .. MaxHarm
    /\ grid \in Shapes(MaxVoxels)
    /\ \E field \in TensorsOn(Voxels(grid), MaxFieldMass) :
          p = FlattenF(field, grid)
    /\ P = <<>>
    /\ computed = {}
    /\ i_harm = 0
    /\ k2 = <<>>
    /\ toep_op = <<>>
    /\ circ_op = <<>>
    /\ xIn = <<>>
    /\ xInFrom = [branch |-> 0, reads |-> {}]
    /\ readBeforeWrite = FALSE
    /\ used = <<>>

\* P = np.zeros((n_harm, L, M, N)); P[0] = p.reshape(L, M, N, order='F')
AllocStack ==
    /\ pc = "alloc"
    /\ P' = StoreHarmonic([h \in 0 .. n_harm - 1 |-> ZeroField(grid)], 0,
                          UnflattenF(p, grid))
    /\ computed' = {0}
    /\ used' = [h \in {} |-> 0]
    /\ pc' = "loop"
    /\ UNCHANGED <<n_harm, grid, p, i_harm, k2, toep_op, circ_op, xIn, xInFrom,
                   readBeforeWrite>>

\* for i_harm in range(1, n_harm): the next index, or the end of the loop
LoopNext ==
    /\ pc = "loop"
    /\ i_harm + 1 < n_harm
    /\ i_harm' = i_harm + 1
    /\ pc' = "assemble"
    /\ UNCHANGED <<n_harm, grid, p, P, computed, k2, toep_op, circ_op, xIn,
                   xInFrom, readBeforeWrite, used>>

LoopEnd ==
    /\ pc = "loop"
    /\ ~(i_harm + 1 < n_harm)
    /\ pc' = "done"
    /\ UNCHANGED <<n_harm, grid, p, P, computed, i_harm, k2, toep_op, circ_op,
                   xIn, xInFrom, readBeforeWrite, used>>

\* f2, k2, toep_op = volume_potential(k2, r), circ_op = circulant_embed_fftw(...)
Assemble ==
    /\ pc = "assemble"
    /\ LET k == Wavenumber(HarmonicFrequency(i_harm))
           toep == volume_potential(k, grid)
       IN /\ k2' = k
          /\ toep_op' = toep
          /\ circ_op' = [k |-> toep.k,
                         step |-> i_harm,
                         emb |-> circulant_embed_fftw(toep.t, grid[1], grid[2],
                                                      grid[3])]
    /\ pc' = "forcing"
    /\ UNCHANGED <<n_harm, grid, p, P, computed, i_harm, xIn, xInFrom,
                   readBeforeWrite, used>>

\* the if/elif chain: xIn is assigned by the branch of i_harm, if there is one
Forcing ==
    /\ pc = "forcing"
    /\ IF HasBranch(i_harm)
       THEN /\ xIn' = ForcingField(i_harm, P, grid)
            /\ xInFrom' = [branch |-> i_harm, reads |-> ForcingReads(i_harm)]
            /\ readBeforeWrite' =
                  (readBeforeWrite \/ ~(ForcingReads(i_harm) \subseteq computed))
       ELSE UNCHANGED <<xIn, xInFrom, readBeforeWrite>>
    /\ pc' = "mvp"
    /\ UNCHANGED <<n_harm, grid, p, P, computed, i_harm, k2, toep_op, circ_op,
                   used>>

\* xInVec = xIn.reshape(...); idx, Mr = ones; P[i_harm] = mvp(xInVec).reshape(...)
Mvp ==
    /\ pc = "mvp"
    /\ LET xInVec == FlattenF(xIn, grid)
           idx == Voxels(grid)
           Mr == Ones(grid)
           out == UnflattenF(mvp(xInVec, circ_op.emb, idx, Mr, grid), grid)
       IN P' = StoreHarmonic(P, i_harm, out)
    /\ computed' = computed \cup {i_harm}
    /\ used' = [h \in DOMAIN used \cup {i_harm} |->
                  IF h = i_harm
                  THEN [k |-> circ_op.k, step |-> circ_op.step, forcing |-> xIn,
                        branch |-> xInFrom.branch, reads |-> xInFrom.reads]
                  ELSE used[h]]
    /\ pc' = "loop"
    /\ UNCHANGED <<n_harm, grid, p, i_harm, k2, toep_op, circ_op, xIn, xInFrom,
                   readBeforeWrite>>

Next ==
    \/ AllocStack /\ UNCHANGED <<embedVars, matvecVars, bowlVars, runVars>>
    \/ LoopNext /\ UNCHANGED <<embedVars, matvecVars, bowlVars, runVars>>
    \/ LoopEnd /\ UNCHANGED <<embedVars, matvecVars, bowlVars, runVars>>
    \/ Assemble /\ UNCHANGED <<embedVars, matvecVars, bowlVars, runVars>>
    \/ Forcing /\ UNCHANGED <<embedVars, matvecVars, bowlVars, runVars>>
    \/ Mvp /\ UNCHANGED <<embedVars, matvecVars, bowlVars, runVars>>

Init == CascadeInit /\ EmbedIdle /\ MatvecIdle /\ BowlIdle /\ RunIdle

Spec == Init /\ [][Next]_vars

(***************************************************************************)
(* Claims about the harmonic cascade.                                      *)
(***************************************************************************)
\* The elif chain ends at i_harm == 4: harmonic counts up to 5 have a branch
\* for every harmonic.
MaxSupportedHarm == 5

\* C3: the forcing field of harmonic h is built only from harmonics of strictly
\* lower index, each already computed when it is read.
ForcingFromLowerHarmonics ==
    /\ ~readBeforeWrite
    /\ pc = "mvp" => \A r \in xInFrom.reads : r < i_harm /\ r \in computed
    /\ \A h \in DOMAIN used : \A r \in used[h].reads : r < h

\* The fourth harmonic has been produced from P[1]*P[1] + 2*P[0]*P[2].
ForcingFromLowerHarmonicsWitness ==
    /\ pc = "done"
    /\ 3 \in DOMAIN used
    /\ used[3].reads = {0, 1, 2}
    /\ used[3].forcing # ZeroField(grid)

\* C7: the operator application that produces harmonic h uses the embedding built
\* in that same step at the wavenumber of frequency (h+1)*f1 with its own
\* attenuation.
EmbeddingOfOwnHarmonic ==
    \A h \in DOMAIN used :
        /\ used[h].step = h
        /\ used[h].k = <<h + 1, (h + 1) * (h + 1)>>

\* Two harmonics have been produced, each with its own embedding.
EmbeddingOfOwnHarmonicWitness ==
    /\ pc = "done"
    /\ {1, 2} \subseteq DOMAIN used
    /\ used[1].k # used[2].k
    /\ P[2] # ZeroField(grid)

\* The enumerated quadratic combinations, harmonic by harmonic.
EnumeratedCombination(h, stack, shape) ==
    LET PP(a, b) == Hadamard(stack[a], stack[b], shape)
        Twice(f) == FieldAdd(f, f, shape)
    IN CASE h = 1 -> FieldMul(<<-2, 0>>, PP(0, 0), shape)
         [] h = 2 -> FieldMul(<<-9, 0>>, PP(0, 1), shape)
         [] h = 3 -> FieldMul(<<-8, 0>>,
                              FieldAdd(PP(1, 1), Twice(PP(0, 2)), shape), shape)
         [] h = 4 -> FieldMul(<<-25, 0>>,
                              FieldAdd(PP(0, 3), PP(1, 2), shape), shape)

\* The generic contrast operator at harmonic h's wavenumber, on the grid.
OperatorOfHarmonic(h, x, shape) ==
    LET k == <<h + 1, (h + 1) * (h + 1)>>
        toep == [l \in LagsOf(shape) |->
                    GreenSample(k, l[1] * l[1] + l[2] * l[2] + l[3] * l[3])]
    IN [v \in Voxels(shape) |->
          GridSum([j \in Voxels(shape) |-> CMul(toep[VSub(v, j)], x[j])], shape)]

HarmonicIsOwnCombination(h) ==
    /\ h \in computed
    /\ h \in DOMAIN used
    /\ used[h].branch = h
    /\ used[h].forcing = EnumeratedCombination(h, P, grid)
    /\ P[h] = OperatorOfHarmonic(h, used[h].forcing, grid)

\* C8 as stated: for every requested n_harm, at the end every harmonic
\* 1 .. n_harm-1 is the operator applied to the forcing built in its own step as
\* its own enumerated combination.
CascadeComputesEveryHarmonic ==
    pc = "done" => \A h \in 1 .. n_harm - 1 : HarmonicIsOwnCombination(h)

\* C8 amended: the same for every requested n_harm up to the five harmonics the
\* elif chain enumerates.
CascadeComputesSupportedHarmonics ==
    (pc = "done" /\ n_harm <= MaxSupportedHarm) =>
        \A h \in 1 .. n_harm - 1 : HarmonicIsOwnCombination(h)

\* All five supported harmonics have been computed from a nonzero fundamental.
CascadeComputesSupportedHarmonicsWitness ==
    /\ pc = "done"
    /\ n_harm = MaxSupportedHarm
    /\ computed = 0 .. 4
    /\ \A h \in 0 .. 4 : P[h] # ZeroField(grid)

\* C9: a step changes an entry of the stack only if that entry is the next one
\* in index order, not written before, and it is the only one changed; entries
\* already written stay as they are.
StackAppendOnly ==
    [][/\ computed \subseteq computed'
       /\ \A h \in DOMAIN P \cap DOMAIN P' :
             P'[h] # P[h] =>
                /\ h \notin computed
                /\ computed = 0 .. h - 1
                /\ computed' = 0 .. h
       /\ \A h \in computed' \ computed : computed = 0 .. h - 1
      ]_vars

\* Three entries have been written, one after the other.
StackAppendOnlyWitness ==
    /\ pc = "loop"
    /\ computed = {0, 1, 2}
    /\ P[0] # ZeroField(grid)
    /\ P[1] # ZeroField(grid)
    /\ P[2] # ZeroField(grid)
    /\ P[1] # P[2]

(***************************************************************************)
(* bowl_transducer (src/vines/fields/transducers.py).                      *)
(*                                                                         *)
(* The tiling loop places every source at                                  *)
(*   focal_length * (sin(theta)cos(phi), sin(theta)sin(phi), cos(theta))   *)
(* with theta between theta1 = arcsin(aperture_radius / focal_length) and  *)
(* theta2 = arcsin(radius / focal_length): a point of the sphere of radius *)
(* focal_length about the origin, on the cap z > 0, whose distance from    *)
(* the z axis lies between aperture_radius and radius.  The angles are not *)
(* computable here; the tiling is represented by the integer points of     *)
(* that band, a set fixed by (focal_length, radius, aperture_radius) as    *)
(* the tiling is fixed by its arguments (n_elements sets its density and   *)
(* the area weight a only).                                                *)
(***************************************************************************)
MinDist == 1          \* 1e-3 m, in millimetres
n_elements == 4096

Dist2(a, b) ==
    (a[1] - b[1]) * (a[1] - b[1]) + (a[2] - b[2]) * (a[2] - b[2])
    + (a[3] - b[3]) * (a[3] - b[3])

TileBowl(focal_length, radius, aperture_radius) ==
    {s \in (-focal_length .. focal_length) \X (-focal_length .. focal_length)
           \X (1 .. focal_length) :
        /\ s[1] * s[1] + s[2] * s[2] + s[3] * s[3] = focal_length * focal_length
        /\ aperture_radius * aperture_radius <= s[1] * s[1] + s[2] * s[2]
        /\ s[1] * s[1] + s[2] * s[2] <= radius * radius}

\* a = 2*pi*r**2*(cos(theta1) - cos(theta2)) / n_elements, kept as the formal
\* value of its arguments.
AreaElement(focal_length, radius, aperture_radius, n) ==
    [focal_length |-> focal_length, radius |-> radius,
     aperture_radius |-> aperture_radius, n_elements |-> n]

\* `axis in 'z'` is a substring test.
AxisIn(axis, letter) == axis = "" \/ axis = letter
SupportedAxis(axis) == AxisIn(axis, "z") \/ AxisIn(axis, "x")

\* A plausible slip: the 'x' branch offsets by the focus's z component.
ReorientWrongComponent(tile, focus, axis) ==
    IF AxisIn(axis, "z")
    THEN {<<s[1], s[2], focus[3] - s[3]>> : s \in tile}
    ELSE {<<focus[3] - s[3], -s[1], -s[2]>> : s \in tile}

\* if axis in 'z': z = focus[2] - z
\* elif axis in 'x': z_t = focus[0] - z; z = -y_t; y = -x_t; x = z_t
Reorient(tile, focus, axis) ==
    IF AxisIn(axis, "z")
    THEN {<<s[1], s[2], focus[3] - s[3]>> : s \in tile}
    ELSE {<<focus[1] - s[3], -s[1], -s[2]>> : s \in tile}

\* A plausible slip: the guard admits the pairs at the minimum distance and
\* beyond, the coincident pair excepted.
ContributesFromMinDist(d2) == d2 >= MinDist * MinDist

\* if dist > 1e-3  (dist = sqrt(d2), both sides non-negative)
Contributes(d2) == d2 > MinDist * MinDist

\* exp(1j*k*dist) / (4*pi*dist): the formal term of its wavenumber and squared
\* distance; the division fails at dist = 0.
Monopole(k, d2) == IF d2 = 0 THEN "ZeroDivisionError" ELSE [k |-> k, d2 |-> d2]

\* The inner loop over the sources for one observation point: the terms summed
\* into temp, by source.
EvalSourceAt(src, pt, k) ==
    LET near == {s \in src : Contributes(Dist2(s, pt))}
    IN [s \in near |-> Monopole(k, Dist2(s, pt))]
DividesByZero(src, pt) ==
    \E s \in src : Contributes(Dist2(s, pt)) /\ Dist2(s, pt) = 0

\* The whole call: x, y, z, p*a.
bowl_transducer(k, focal_length, focus, radius, n, aperture_radius, points, axis) ==
    LET src == Reorient(TileBowl(focal_length, radius, aperture_radius), focus,
                        axis)
        a == AreaElement(focal_length, radius, aperture_radius, n)
    IN [src |-> src,
        p |-> [pt \in points |-> [sum |-> EvalSourceAt(src, pt, k), a |-> a]]]

(***************************************************************************)
(* SpecBowl: one call of bowl_transducer; the observation points are       *)
(* evaluated in any order (prange).                                        *)
(***************************************************************************)
ObsBox == {0, 1} \X {0, 1} \X {0, 1}
Configs ==
    {c \in (1 .. MaxFocal) \X (1 .. MaxFocal) \X {0, 1} : c[3] < c[2] /\ c[2] <= c[1]}
FocusChoices(focal_length) ==
    {<<0, 0, focal_length>>, <<focal_length, 0, 0>>,
     <<1, 0, focal_length>>, <<focal_length, 0, 1>>}

BowlInit ==
    /\ bPc = "call"
    /\ \E c \in Configs, axis \in {"z", "x", "y"} :
       \E focus \in FocusChoices(c[1]) :
       \E points \in {S \in SUBSET ObsBox : Cardinality(S) \in 1 .. MaxPoints} :
          bArgs = [k |-> <<1, 1>>, focal_length |-> c[1], focus |-> focus,
                   radius |-> c[2], n_elements |-> n_elements,
                   aperture_radius |-> c[3], points |-> points, axis |-> axis]
    /\ bSrc = {}
    /\ bTodo = {}
    /\ bP = <<>>
    /\ bFault = FALSE

\* lines 14-47: the tiling and its re-orientation
BowlTile ==
    /\ bPc = "call"
    /\ SupportedAxis(bArgs.axis)
    /\ bSrc' = Reorient(TileBowl(bArgs.focal_length, bArgs.radius,
                                 bArgs.aperture_radius),
                        bArgs.focus, bArgs.axis)
    /\ bTodo' = bArgs.points
    /\ bP' = [pt \in {} |-> 0]
    /\ bPc' = "eval"
    /\ UNCHANGED <<bArgs, bFault>>

\* neither branch taken: x, y, z stay lists, which eval_source does not accept
BowlUnsupportedAxis ==
    /\ bPc = "call"
    /\ ~SupportedAxis(bArgs.axis)
    /\ bPc' = "raised"
    /\ UNCHANGED <<bArgs, bSrc, bTodo, bP, bFault>>

\* one iteration of the prange loop
EvalPoint(pt) ==
    /\ bPc = "eval"
    /\ pt \in bTodo
    /\ IF DividesByZero(bSrc, pt)
       THEN /\ bFault' = TRUE
            /\ bPc' = "raised"
            /\ UNCHANGED <<bTodo, bP>>
       ELSE /\ bP' = [q \in DOMAIN bP \cup {pt} |->
                        IF q = pt THEN EvalSourceAt(bSrc, pt, bArgs.k) ELSE bP[q]]
            /\ bTodo' = bTodo \ {pt}
            /\ UNCHANGED <<bPc, bFault>>
    /\ UNCHANGED <<bArgs, bSrc>>

\* return x, y, z, p*a
BowlReturn ==
    /\ bPc = "eval"
    /\ bTodo = {}
    /\ bP' = [pt \in DOMAIN bP |->
                [sum |-> bP[pt],
                 a |-> AreaElement(bArgs.focal_length, bArgs.radius,
                                   bArgs.aperture_radius, bArgs.n_elements)]]
    /\ bPc' = "returned"
    /\ UNCHANGED <<bArgs, bSrc, bTodo, bFault>>

BowlNext ==
    \/ BowlTile /\ UNCHANGED <<embedVars, matvecVars, runVars, cascadeVars>>
    \/ BowlUnsupportedAxis /\ UNCHANGED <<embedVars, matvecVars, runVars, cascadeVars>>
    \/ (\E pt \in ObsBox : EvalPoint(pt))
          /\ UNCHANGED <<embedVars, matvecVars, runVars, cascadeVars>>
    \/ BowlReturn /\ UNCHANGED <<embedVars, matvecVars, runVars, cascadeVars>>

BowlStart == BowlInit /\ EmbedIdle /\ MatvecIdle /\ RunIdle /\ CascadeIdle

SpecBowl == BowlStart /\ [][BowlNext]_vars

\* The returned pressure sums the monopole terms of the pairs whose squared
\* distance is not among the excluded ones, weighted by a.
SumsExactly(excluded) ==
    \A pt \in bArgs.points :
        /\ pt \in DOMAIN bP
        /\ DOMAIN bP[pt].sum = {s \in bSrc : Dist2(s, pt) \notin excluded}
        /\ \A s \in DOMAIN bP[pt].sum :
              bP[pt].sum[s] = [k |-> bArgs.k, d2 |-> Dist2(s, pt)]
        /\ bP[pt].a = AreaElement(bArgs.focal_length, bArgs.radius,
                                  bArgs.aperture_radius, bArgs.n_elements)

\* C4 as stated: the pairs that contribute zero are exactly those closer than the
\* minimum distance, and no pair divides by zero or raises.
ExcludedAreCloserThanMinDist ==
    /\ ~bFault
    /\ bPc = "returned" =>
          SumsExactly(0 .. MinDist * MinDist - 1)

\* C4 amended: the pairs that contribute zero are exactly those at a distance of
\* at most the minimum distance.
ExcludedAreWithinMinDist ==
    /\ ~bFault
    /\ bPc = "returned" =>
          SumsExactly(0 .. MinDist * MinDist)

\* A call has returned in which one pair coincides, one is exactly at the minimum
\* distance and one lies beyond it.
ExcludedAreWithinMinDistWitness ==
    /\ bPc = "returned"
    /\ \E pt \in bArgs.points : \E s \in bSrc : Dist2(s, pt) = 0
    /\ \E pt \in bArgs.points : \E s \in bSrc : Dist2(s, pt) = MinDist * MinDist
    /\ \E pt \in bArgs.points : \E s \in bSrc : Dist2(s, pt) > MinDist * MinDist

OnAxis(focus, axis) ==
    \/ axis = "z" /\ focus[1] = 0 /\ focus[2] = 0
    \/ axis = "x" /\ focus[2] = 0 /\ focus[3] = 0

\* C10 as stated: for axis 'z' and axis 'x' every source lies at the focal length
\* from the given focus point.
SourcesAtFocalLengthOfFocus ==
    bPc \in {"eval", "returned"} =>
        \A s \in bSrc :
            Dist2(s, bArgs.focus) = bArgs.focal_length * bArgs.focal_length

\* C10 for a focus on the chosen axis: there every source lies at the focal
\* length from the focus (a focus off the axis has its transverse components
\* ignored by the re-orientation); and the
\* sources for axis 'x' are those for axis 'z' (focus at the same distance along
\* z) with the coordinates permuted to (z, x, y) and the two transverse ones
\* negated.
SourcesAtFocalLengthOfAxialFocus ==
    (bPc \in {"eval", "returned"} /\ OnAxis(bArgs.focus, bArgs.axis)) =>
        /\ \A s \in bSrc :
              Dist2(s, bArgs.focus) = bArgs.focal_length * bArgs.focal_length
        /\ bArgs.axis = "x" =>
              bSrc = {<<s[3], -s[1], -s[2]>> :
                        s \in Reorient(TileBowl(bArgs.focal_length, bArgs.radius,
                                                bArgs.aperture_radius),
                                       <<0, 0, bArgs.focus[1]>>, "z")}

\* A bowl of several sources has been re-oriented along x about an axial focus.
SourcesAtFocalLengthOfAxialFocusWitness ==
    /\ bPc = "returned"
    /\ bArgs.axis = "x"
    /\ OnAxis(bArgs.focus, bArgs.axis)
    /\ Cardinality(bSrc) > 1

(***************************************************************************)
(* normalise_power (src/vines/fields/transducers.py) and the demo's        *)
(* incident-field section (src/demo/hifu/transducer_nonlinear.py, lines    *)
(* 99-114).                                                                *)
(*                                                                         *)
(* Real values are extended rationals [n, d, pi] standing for              *)
(* (n / d) * pi^pi with d >= 0: d = 0 is +inf (n = 1), -inf (n = -1) or    *)
(* nan (n = 0), as floating-point division by zero yields them; these and  *)
(* zero carry no power of pi.  The                                         *)
(* amplitude p0 is kept as its square.  The sampled intensities            *)
(* |p_quad|^2 are values of exp and are taken as inputs.                   *)
(***************************************************************************)
Abs(n) == IF n < 0 THEN -n ELSE n
Sign(n) == IF n < 0 THEN -1 ELSE IF n > 0 THEN 1 ELSE 0

RECURSIVE Gcd(_, _)
Gcd(a, b) == IF b = 0 THEN a ELSE Gcd(b, a % b)

Q(n, d, e) ==
    IF d = 0 THEN [n |-> Sign(n), d |-> 0, pi |-> 0]
    ELSE IF n = 0 THEN [n |-> 0, d |-> 1, pi |-> 0]
    ELSE LET g == Gcd(Abs(n), d) IN [n |-> n \div g, d |-> d \div g, pi |-> e]
QInt(n) == Q(n, 1, 0)
QPi == Q(1, 1, 1)
QIsNan(a) == a.d = 0 /\ a.n = 0
QMul(a, b) == Q(a.n * b.n, a.d * b.d, a.pi + b.pi)
QDiv(a, b) == Q(a.n * b.d * (IF b.n < 0 THEN -1 ELSE 1), a.d * Abs(b.n), a.pi - b.pi)
QAdd(a, b) ==
    IF a.d = 0 /\ b.d = 0
    THEN (IF a.n = b.n THEN a ELSE Q(0, 0, 0))
    ELSE Q(a.n * b.d + b.n * a.d, a.d * b.d, IF a.n = 0 THEN b.pi ELSE a.pi)
QEq(a, b) == ~QIsNan(a) /\ ~QIsNan(b) /\ a = b
QPositive(a) == a.n > 0 /\ a.d > 0

RECURSIVE QSumTo(_, _)
QSumTo(f, n) == IF n = 0 THEN QInt(0) ELSE QAdd(QSumTo(f, n - 1), f[n - 1])

\* np.linspace(0, r_quad_dim, n_quad)[i]
r_quad(radius, i) == Q(radius * i, QuadSamples - 1, 0)

\* 2*np.pi*np.sum(np.abs(p_quad)**2 * r_quad)*r_quad_dim/n_quad
\* (absp2 holds the values np.abs(p_quad)**2)
Quadrature(absp2, radius) ==
    LET weighted == [i \in 0 .. QuadSamples - 1 |-> QMul(absp2[i], r_quad(radius, i))]
    IN QDiv(QMul(QMul(QMul(QInt(2), QPi), QSumTo(weighted, QuadSamples)),
                 QInt(radius)),
            QInt(QuadSamples))

\* A plausible slip: the factor 2 of 2*rho*c0 is dropped.
AmplitudeSquaredHalved(power, rho, c0, integral) ==
    QDiv(QInt(rho * c0 * power), integral)

\* p0 = np.sqrt(2*rho*c0*power/integral): the radicand
AmplitudeSquared(power, rho, c0, integral) ==
    QDiv(QInt(2 * rho * c0 * power), integral)

\* |p0|^2 for p0 = np.sqrt(radicand): nan when the radicand is negative or nan
AbsSquaredOfRoot(radicand) ==
    IF radicand.n < 0 THEN Q(0, 0, 0) ELSE radicand

\* A plausible slip: the calibration tiles the bowl along z.
NormalisePowerAxisZ == "z"

\* the axis argument of the bowl_transducer call in normalise_power
NormalisePowerAxis == "x"

\* The quadrature of the field scaled by p0, converted to a power with 2*rho*c0.
RoundTripPower(p0sq, intensity, rho, c0, radius) ==
    LET scaled == [i \in 0 .. QuadSamples - 1 |->
                     QMul(AbsSquaredOfRoot(p0sq), QInt(intensity[i]))]
    IN QDiv(Quadrature(scaled, radius), QInt(2 * rho * c0))

(***************************************************************************)
(* SpecRun: the incident field is evaluated on the voxel mesh, masked near *)
(* the bowl, and scaled by the calibrated amplitude.                       *)
(***************************************************************************)
RunPoints == ObsBox

\* np.abs(dist_from_focus - roc) < 5e-4, dist measured from (focus[0], 0, 0);
\* half a millimetre, compared through the squares.
IsNear(pt, focus, roc) ==
    LET d2 == Dist2(pt, <<focus[1], 0, 0>>)
    IN /\ (2 * roc - 1) * (2 * roc - 1) < 4 * d2
       /\ 4 * d2 < (2 * roc + 1) * (2 * roc + 1)

RunInit ==
    /\ rPc = "field"
    /\ \E c \in Configs, rho \in {1, 3}, c0 \in {1, 2} :
          rCfg = [k1 |-> <<1, 1>>, roc |-> c[1], focus |-> <<c[1], 0, 0>>,
                  radius |-> c[2], aperture_radius |-> c[3],
                  n_elements |-> n_elements, rho |-> rho, c |-> c0]
    /\ rPower \in -1 .. MaxPower
    /\ rField = <<>>
    /\ rBuilds = <<>>
    /\ rIntensity = <<>>
    /\ rP0 = <<>>
    /\ rScaled = <<>>

\* x, y, z, p = bowl_transducer(k1, roc, focus, outer_D / 2, n_elements,
\*                              inner_D / 2, points.T, 'x')
EvalIncident ==
    /\ rPc = "field"
    /\ LET out == bowl_transducer(rCfg.k1, rCfg.roc, rCfg.focus, rCfg.radius,
                                  rCfg.n_elements, rCfg.aperture_radius,
                                  RunPoints, "x")
       IN /\ rField' = out.p
          /\ rBuilds' = Append(rBuilds, [by |-> "field", src |-> out.src])
    /\ rPc' = "mask"
    /\ UNCHANGED <<rCfg, rPower, rIntensity, rP0, rScaled>>

\* p[idx_near] = 0.0
MaskNear ==
    /\ rPc = "mask"
    /\ rField' = [pt \in DOMAIN rField |->
                    IF IsNear(pt, rCfg.focus, rCfg.roc) THEN "0.0" ELSE rField[pt]]
    /\ rPc' = "calibrate"
    /\ UNCHANGED <<rCfg, rPower, rBuilds, rIntensity, rP0, rScaled>>

\* p0 = normalise_power(power, rho, c, outer_D/2, k1, roc, focus, n_elements,
\*                      inner_D/2)
\* Its own bowl_transducer call tiles the bowl again; with no source the sampled
\* field is zero, otherwise it is taken not to vanish on every off-axis sample.
NormalisePower ==
    /\ rPc = "calibrate"
    /\ LET src == Reorient(TileBowl(rCfg.roc, rCfg.radius, rCfg.aperture_radius),
                           rCfg.focus, NormalisePowerAxis)
       IN /\ rBuilds' = Append(rBuilds, [by |-> "normalise_power", src |-> src])
          /\ \E absp2 \in [0 .. QuadSamples - 1 -> 0 .. MaxIntensity] :
                /\ src = {} => \A i \in 0 .. QuadSamples - 1 : absp2[i] = 0
                /\ src # {} => \E i \in 1 .. QuadSamples - 1 : absp2[i] > 0
                /\ rIntensity' = absp2
                /\ rP0' = AmplitudeSquared(
                              rPower, rCfg.rho, rCfg.c,
                              Quadrature([i \in 0 .. QuadSamples - 1 |-> QInt(absp2[i])],
                                         rCfg.radius))
    /\ rPc' = "scale"
    /\ UNCHANGED <<rCfg, rPower, rField, rScaled>>

\* p *= p0
Scale ==
    /\ rPc = "scale"
    /\ rScaled' = [pt \in DOMAIN rField |-> [p0sq |-> rP0, p |-> rField[pt]]]
    /\ rPc' = "done"
    /\ UNCHANGED <<rCfg, rPower, rField, rBuilds, rIntensity, rP0>>

RunNext ==
    \/ EvalIncident /\ UNCHANGED <<embedVars, matvecVars, bowlVars, cascadeVars>>
    \/ MaskNear /\ UNCHANGED <<embedVars, matvecVars, bowlVars, cascadeVars>>
    \/ NormalisePower /\ UNCHANGED <<embedVars, matvecVars, bowlVars, cascadeVars>>
    \/ Scale /\ UNCHANGED <<embedVars, matvecVars, bowlVars, cascadeVars>>

RunStart == RunInit /\ EmbedIdle /\ MatvecIdle /\ BowlIdle /\ CascadeIdle

SpecRun == RunStart /\ [][RunNext]_vars

CalibrationIntegral ==
    Quadrature([i \in 0 .. QuadSamples - 1 |-> QInt(rIntensity[i])], rCfg.radius)

TilingConstructedOnce == rPc = "done" => Len(rBuilds) = 1

\* C6 amended: the tiling is constructed twice, once by the field evaluation and
\* once more by the calibration, and both constructions give the same source set.
TilingConstructedPerCall ==
    rPc = "done" =>
        /\ Len(rBuilds) = 2
        /\ rBuilds[1].by = "field"
        /\ rBuilds[2].by = "normalise_power"
        /\ rBuilds[1].src = rBuilds[2].src

\* A run over a bowl of several sources has finished.
TilingConstructedPerCallWitness ==
    /\ rPc = "done"
    /\ Len(rBuilds) = 2
    /\ Cardinality(rBuilds[1].src) > 1

====
